---- MODULE Spec2Model ----
(***************************************************************************)
(* Model of stack.py: a tracker of stacked git branches.                   *)
(*                                                                         *)
(* One invocation of stack.py is one atomic step: read_graph loads         *)
(* .stack.json, main() synchronises the checked-out branch and runs at     *)
(* most one operator, and read_graph writes .stack.json back unless an     *)
(* exception left the "with" block.  The git commands of the user (commit, *)
(* checkout) run the hooks that test.py installs, so each of them is one   *)
(* step together with the invocation its hook starts.                      *)
(*                                                                         *)
(* A commit id is the sequence of the changes on its history, oldest       *)
(* first: "root" is the first commit of the repository and the change a    *)
(* user commits on a branch is named after that branch, each branch        *)
(* committing once (a run of commits on one branch behaves as one commit). *)
(* History is linear, an ancestor is a prefix and the merge-base is the    *)
(* longest common prefix.  A rebase replays changes: it gives a new commit *)
(* id unless the branch already is those changes on top of the new base,   *)
(* and a change the new base already contains is dropped.  <<>> stands for *)
(* "no commit": a branch that does not exist, an attribute that is absent. *)
(***************************************************************************)
EXTENDS Integers, Sequences, FiniteSets, TLC

\* ---------------------------------------------------------------- bounds
MaxDepth == 4        \* nested move_branch calls before RecursionError
MaxOps == 9          \* the size of a history: see Size

\* ---------------------------------------------------------------- names
BranchSeq == <<"b1", "b2", "b3">>
Branches == {BranchSeq[i] : i \in 1..Len(BranchSeq)}
Names == {"main", "master"} \cup Branches
NoSha == <<>>
NoPull == ""
Urls == {"pull/1"}

VARIABLES
    file,       \* .stack.json: the persisted graph
    tip,        \* git: branch name -> commit id (NoSha: no such branch)
    HEAD,       \* git: the checked-out branch, "HEAD" when detached
    ncmds       \* commands given so far

vars == <<file, tip, HEAD, ncmds>>

\* ------------------------------------------------------- sequence helpers
RECURSIVE CommonPrefixLen(_, _)
CommonPrefixLen(a, b) ==
    IF a = <<>> \/ b = <<>> \/ Head(a) # Head(b) THEN 0
    ELSE 1 + CommonPrefixLen(Tail(a), Tail(b))

InSeq(s, x) == \E i \in 1..Len(s) : s[i] = x

RECURSIVE SelectNotIn(_, _)
SelectNotIn(s, t) ==
    IF s = <<>> THEN <<>>
    ELSE IF InSeq(t, Head(s)) THEN SelectNotIn(Tail(s), t)
    ELSE <<Head(s)>> \o SelectNotIn(Tail(s), t)

RECURSIVE Without(_, _)
Without(s, x) ==
    IF s = <<>> THEN <<>>
    ELSE IF Head(s) = x THEN Without(Tail(s), x)
    ELSE <<Head(s)>> \o Without(Tail(s), x)

\* ------------------------------------------------ networkx.DiGraph subset
\* nodes: the node names in insertion order; attr: the attribute dict of each
\* node; succ: the successors of each node in insertion order.
NoAttr == [sha |-> NoSha, base |-> NoSha, pull |-> NoPull]

DiGraph == [nodes |-> <<>>, attr |-> [n \in Names |-> NoAttr], succ |-> [n \in Names |-> <<>>]]

has_node(g, n) == InSeq(g.nodes, n)

\* graph.add_node(n, sha=sha): a new node has this one attribute, an existing
\* node keeps its other attributes, its edges and its place
add_node(g, n, sha) ==
    IF has_node(g, n) THEN [g EXCEPT !.attr[n].sha = sha]
    ELSE [g EXCEPT !.nodes = Append(@, n), !.attr[n] = [NoAttr EXCEPT !.sha = sha]]

predecessors(g, n) == {p \in Names : InSeq(g.succ[p], n)}

successors(g, n) == g.succ[n]

\* remove_edge that removes nothing, and one that removes every edge of u
remove_edge_none(g, u, v) == g

remove_edge_all(g, u, v) == [g EXCEPT !.succ[u] = <<>>]

remove_edge(g, u, v) == [g EXCEPT !.succ[u] = Without(@, v)]

add_edge(g, u, v) ==
    IF InSeq(g.succ[u], v) THEN g ELSE [g EXCEPT !.succ[u] = Append(@, v)]

\* remove_node that leaves the edges of the node
remove_node_only(g, n) ==
    [g EXCEPT !.nodes = Without(@, n), !.attr[n] = NoAttr]

remove_node(g, n) ==
    [nodes |-> Without(g.nodes, n),
     attr |-> [g.attr EXCEPT ![n] = NoAttr],
     succ |-> [m \in Names |-> IF m = n THEN <<>> ELSE Without(g.succ[m], n)]]

\* ------------------------------------------------------------ git adapter
\* get_main_branch: "main" when git rev-parse main succeeds, else "master"
get_main_branch(t) == IF t["main"] # NoSha THEN "main" ELSE "master"

\* git merge-base a b
merge_base(t, a, b) == SubSeq(t[b], 1, CommonPrefixLen(t[a], t[b]))

\* git rebase [--onto onto] upstream, with the branch at commit c: the changes
\* of c that are not in upstream are replayed on onto, except those onto has
rebase_result(onto, upstream, c) ==
    onto \o SelectNotIn(SubSeq(c, CommonPrefixLen(c, upstream) + 1, Len(c)), onto)

\* git merge p, with the branch at commit c: a fast-forward when c is an
\* ancestor of p, else a commit that has the changes of both
merge_result(c, p) == p \o SelectNotIn(c, p)

\* ------------------------------------------------- state of one invocation
\* g: the graph in memory; tip, head: the repository; out: "ok" or the
\* exception that ended the invocation; log: the requests made to git and to
\* the hosting service; failAt: which rebase request (counted from 1) ends in
\* a conflict, 0 for none; resps: the responses the hosting service will give;
\* disk: .stack.json, which the hooks that git runs during the invocation may
\* rewrite.
Invocation(f, g, t, h, failAt, resps) ==
    [g |-> g, tip |-> t, head |-> h, out |-> "ok", log |-> <<>>,
     failAt |-> failAt, resps |-> resps, disk |-> f]

Raise(st, err) == [st EXCEPT !.out = err]

NoCall ==
    [cmd |-> "", branch |-> "", onto |-> NoSha, upstream |-> NoSha, ok |-> TRUE,
     attr |-> NoAttr, parents |-> {}, url |-> NoPull, base |-> "", draft |-> FALSE,
     status |-> 0]

\* a request to git about a branch, with what the graph said of it at the time
Entry(cmd, branch, onto, upstream, ok, st) ==
    [NoCall EXCEPT !.cmd = cmd, !.branch = branch, !.onto = onto, !.upstream = upstream,
                   !.ok = ok, !.attr = st.g.attr[branch],
                   !.parents = predecessors(st.g, branch)]

IsRebase(e) == e.cmd \in {"rebase", "rebase_onto"}

NumRebases(log) == Cardinality({i \in 1..Len(log) : IsRebase(log[i])})

LastOk(st) == st.log[Len(st.log)].ok

\* the post-checkout and post-commit hooks that git runs while it rebases,
\* without STACKY_STACKY and with HEAD detached: stack.py reads .stack.json,
\* adds the trunk, returns at line 207 and writes .stack.json
rebase_hooks(f, t) == add_node(f, get_main_branch(t), t[get_main_branch(t)])

\* run_command("git", "rebase", ...): the branch is checked out and, unless
\* the rebase ends in a conflict, moved to the replayed commits.  After a
\* conflict the user aborts the rebase: the branch is where it was.
git_rebase(st, cmd, onto, upstream, branch) ==
    LET ok == (NumRebases(st.log) + 1) # st.failAt
    IN [st EXCEPT !.log = Append(@, Entry(cmd, branch, onto, upstream, ok, st)),
                  !.head = branch,
                  !.tip[branch] = IF ok THEN rebase_result(onto, upstream, @) ELSE @,
                  !.disk = rebase_hooks(@, st.tip)]

\* run_command("git", "checkout", branch, env=dict(STACKY_STACKY="1")): the
\* post-checkout hook starts stack.py, which returns at once
git_checkout(st, branch) ==
    [st EXCEPT !.log = Append(@, Entry("checkout", branch, NoSha, NoSha, TRUE, st)),
               !.head = branch]

\* ------------------------------------------------------------- operators
\* update_branch that takes the recorded sha of the parent for the merge-base
update_branch_parent_sha(st, head_branch, head_sha) ==
    LET g1 == [st.g EXCEPT !.attr[head_branch].sha = head_sha]
        P == predecessors(st.g, head_branch)
    IN IF P = {} THEN [st EXCEPT !.g = g1]
       ELSE [st EXCEPT !.g = [g1 EXCEPT !.attr[head_branch].base =
                                  st.g.attr[CHOOSE p \in P : TRUE].sha]]

\* update_branch that replaces the attributes of the node by sha and base
update_branch_new_attrs(st, head_branch, head_sha) ==
    LET g1 == [st.g EXCEPT !.attr[head_branch] = [NoAttr EXCEPT !.sha = head_sha]]
        P == predecessors(st.g, head_branch)
    IN IF P = {} THEN [st EXCEPT !.g = g1]
       ELSE IF \E p \in P : st.tip[p] = NoSha THEN Raise([st EXCEPT !.g = g1], "CalledProcessError")
       ELSE LET parent_branch == CHOOSE p \in P : TRUE
            IN [st EXCEPT !.g = [g1 EXCEPT !.attr[head_branch].base =
                                     merge_base(st.tip, parent_branch, head_branch)]]

update_branch(st, head_branch, head_sha) ==
    LET g1 == [st.g EXCEPT !.attr[head_branch].sha = head_sha]
        P == predecessors(st.g, head_branch)
    IN IF P = {} THEN [st EXCEPT !.g = g1]
       ELSE IF \E p \in P : st.tip[p] = NoSha THEN Raise([st EXCEPT !.g = g1], "CalledProcessError")
       ELSE LET parent_branch == CHOOSE p \in P : TRUE
            IN [st EXCEPT !.g = [g1 EXCEPT !.attr[head_branch].base =
                                     merge_base(st.tip, parent_branch, head_branch)]]

\* restack_branch without line 111
restack_branch_no_base(st, head_branch, head_sha) ==
    IF st.g.attr[head_branch].sha # head_sha THEN Raise(st, "ValueError")
    ELSE IF Cardinality(predecessors(st.g, head_branch)) # 1 THEN Raise(st, "ValueError")
    ELSE LET parent_branch == CHOOSE p \in predecessors(st.g, head_branch) : TRUE
             new_base_sha == st.g.attr[parent_branch].sha
             st1 == git_rebase(st, "rebase", new_base_sha, new_base_sha, head_branch)
         IN IF ~LastOk(st1) THEN Raise(st1, "CalledProcessError") ELSE st1

restack_branch(st, head_branch, head_sha) ==
    IF st.g.attr[head_branch].sha # head_sha THEN Raise(st, "ValueError")
    ELSE IF Cardinality(predecessors(st.g, head_branch)) # 1 THEN Raise(st, "ValueError")
    ELSE LET parent_branch == CHOOSE p \in predecessors(st.g, head_branch) : TRUE
             new_base_sha == st.g.attr[parent_branch].sha
             st1 == git_rebase(st, "rebase", new_base_sha, new_base_sha, head_branch)
         IN IF ~LastOk(st1) THEN Raise(st1, "CalledProcessError")
            ELSE [st1 EXCEPT !.g.attr[head_branch].base = new_base_sha]

\* move_node without line 129
move_node_no_base(st, head_branch, head_sha, new_parent) ==
    IF st.g.attr[head_branch].sha # head_sha THEN Raise(st, "ValueError")
    ELSE IF Cardinality(predecessors(st.g, head_branch)) # 1 THEN Raise(st, "ValueError")
    ELSE IF st.g.attr[head_branch].base = NoSha THEN Raise(st, "KeyError")
    ELSE LET parent_branch == CHOOSE p \in predecessors(st.g, head_branch) : TRUE
             st1 == git_rebase(st, "rebase_onto", st.g.attr[new_parent].sha,
                               st.g.attr[head_branch].base, head_branch)
             g2 == [st1.g EXCEPT !.attr[head_branch].sha = st1.tip[head_branch]]
         IN IF ~LastOk(st1) THEN Raise(st1, "UnboundLocalError")
            ELSE [st1 EXCEPT !.g = add_edge(remove_edge(g2, parent_branch, head_branch),
                                            new_parent, head_branch)]

\* move_branch up to the cascade: lines 117-132.  A conflict is logged and
\* not re-raised, so line 129 still sets base before line 130 reads the
\* unbound new_head_sha.
move_node(st, head_branch, head_sha, new_parent) ==
    IF st.g.attr[head_branch].sha # head_sha THEN Raise(st, "ValueError")
    ELSE IF Cardinality(predecessors(st.g, head_branch)) # 1 THEN Raise(st, "ValueError")
    ELSE IF st.g.attr[head_branch].base = NoSha THEN Raise(st, "KeyError")
    ELSE LET parent_branch == CHOOSE p \in predecessors(st.g, head_branch) : TRUE
             old_base_sha == st.g.attr[head_branch].base
             new_base_sha == st.g.attr[new_parent].sha
             st1 == git_rebase(st, "rebase_onto", new_base_sha, old_base_sha, head_branch)
             new_head_sha == st1.tip[head_branch]
             g1 == [st1.g EXCEPT !.attr[head_branch].base = new_base_sha]
             g2 == [g1 EXCEPT !.attr[head_branch].sha = new_head_sha]
         IN IF ~LastOk(st1) THEN Raise([st1 EXCEPT !.g = g1], "UnboundLocalError")
            ELSE [st1 EXCEPT !.g = add_edge(remove_edge(g2, parent_branch, head_branch),
                                            new_parent, head_branch)]

RECURSIVE move_branch(_, _, _, _, _)
RECURSIVE move_children(_, _, _, _)

\* move_children without the loop
move_children_none(st, children, head_branch, depth) == st

\* the loop of lines 134-137 over the list of successors taken at line 134
move_children(st, children, head_branch, depth) ==
    IF st.out # "ok" \/ children = <<>> THEN st
    ELSE LET child_head == Head(children)
             st1 == git_checkout(st, child_head)
             child_sha == st1.tip[child_head]
         IN move_children(move_branch(st1, child_head, child_sha, head_branch, depth + 1),
                          Tail(children), head_branch, depth)

\* move_branch without line 139
move_branch_no_checkout(st, head_branch, head_sha, new_parent, depth) ==
    IF depth > MaxDepth THEN Raise(st, "RecursionError")
    ELSE LET st1 == move_node(st, head_branch, head_sha, new_parent)
         IN IF st1.out # "ok" THEN st1
            ELSE move_children(st1, successors(st1.g, head_branch), head_branch, depth)

move_branch(st, head_branch, head_sha, new_parent, depth) ==
    IF depth > MaxDepth THEN Raise(st, "RecursionError")
    ELSE LET st1 == move_node(st, head_branch, head_sha, new_parent)
             st2 == move_children(st1, successors(st1.g, head_branch), head_branch, depth)
         IN IF st1.out # "ok" THEN st1
            ELSE IF st2.out # "ok" THEN st2
            ELSE git_checkout(st2, head_branch)

\* graph_shas: the last node, in node order, that has the sha
graph_shas(g, sha) ==
    LET I == {i \in 1..Len(g.nodes) : g.attr[g.nodes[i]].sha = sha}
    IN IF I = {} THEN "" ELSE g.nodes[CHOOSE i \in I : \A j \in I : j <= i]

\* get_sha_list() starts at HEAD, so the loop stops at its first commit
add_branch(st, parent_sha, head_branch, head_sha) ==
    LET g1 == [st.g EXCEPT !.nodes = Append(@, head_branch),
                           !.attr[head_branch] = [NoAttr EXCEPT !.sha = head_sha, !.base = head_sha]]
    IN IF graph_shas(st.g, parent_sha) = "" THEN Raise([st EXCEPT !.g = g1], "KeyError")
       ELSE [st EXCEPT !.g = add_edge(g1, graph_shas(st.g, parent_sha), head_branch)]

\* forget_branch without the loop of lines 196-197
forget_branch_any(st, head_branch, old_branch) ==
    IF old_branch = head_branch THEN Raise(st, "ValueError")
    ELSE [st EXCEPT !.g = remove_node(@, old_branch)]

forget_branch(st, head_branch, old_branch) ==
    IF old_branch = head_branch THEN Raise(st, "ValueError")
    ELSE IF successors(st.g, old_branch) # <<>> THEN Raise(st, "ValueError")
    ELSE [st EXCEPT !.g = remove_node(@, old_branch)]

\* ------------------------------------------------------- hosting service
StatusOk == 200
StatusNoDrafts == 422
StatusError == 299

\* a response: its status code and the "url" of its JSON body (NoPull: none)
Responses == [status : {StatusOk, StatusNoDrafts, StatusError}, url : Urls \cup {NoPull}]

\* status_code in range(200, 299)
InRange(status) == status >= 200 /\ status < 299

\* what the service answers to the requests of one submit: one response, or
\* the rejection of the draft and the response to the second request
Scripts ==
    {<<r, r>> : r \in Responses}
    \cup {<<[status |-> StatusNoDrafts, url |-> NoPull], r>> : r \in Responses}

IsHttp(e) == e.cmd \in {"PATCH", "POST"}

NumHttp(log) == Cardinality({i \in 1..Len(log) : IsHttp(log[i])})

\* requests.patch / requests.post: the next response of the service
http(st, cmd, url, head_branch, parent_branch, draft) ==
    LET resp == st.resps[NumHttp(st.log) + 1]
    IN [st EXCEPT !.log = Append(@, [NoCall EXCEPT !.cmd = cmd, !.branch = head_branch,
                                                   !.base = parent_branch, !.url = url,
                                                   !.draft = draft,
                                                   !.attr = st.g.attr[head_branch],
                                                   !.status = resp.status,
                                                   !.ok = resp.url # NoPull])]

LastResp(st) == st.log[Len(st.log)]

\* create_pull that goes on after any response to the draft that is not a success
create_pull_retry_any(st, head_branch, parent_branch, wanted_draft_mode) ==
    LET st1 == http(st, "POST", NoPull, head_branch, parent_branch, wanted_draft_mode)
        resp == LastResp(st1)
    IN IF wanted_draft_mode /\ ~InRange(resp.status) THEN [st |-> st1, again |-> TRUE]
       ELSE IF ~resp.ok THEN [st |-> Raise(st1, "KeyError"), again |-> FALSE]
       ELSE [st |-> [st1 EXCEPT !.g.attr[head_branch].pull = st.resps[NumHttp(st.log) + 1].url],
             again |-> FALSE]

\* one pass of the loop of lines 173-190; TRUE when the loop goes on
create_pull(st, head_branch, parent_branch, wanted_draft_mode) ==
    LET st1 == http(st, "POST", NoPull, head_branch, parent_branch, wanted_draft_mode)
        resp == LastResp(st1)
    IN IF wanted_draft_mode /\ resp.status = StatusNoDrafts THEN [st |-> st1, again |-> TRUE]
       ELSE IF ~resp.ok THEN [st |-> Raise(st1, "KeyError"), again |-> FALSE]
       ELSE [st |-> [st1 EXCEPT !.g.attr[head_branch].pull = st.resps[NumHttp(st.log) + 1].url],
             again |-> FALSE]

\* submit_pull_request that never takes the branch of lines 163-167
submit_pull_request_create(st, head_branch, origin) ==
    IF Cardinality(predecessors(st.g, head_branch)) # 1 THEN Raise(st, "ValueError")
    ELSE LET parent_branch == CHOOSE p \in predecessors(st.g, head_branch) : TRUE
             first == create_pull(st, head_branch, parent_branch, TRUE)
         IN IF ~origin THEN Raise(st, "ValueError")
            ELSE IF first.again
            THEN create_pull(first.st, head_branch, parent_branch, FALSE).st
            ELSE first.st

submit_pull_request(st, head_branch, origin) ==
    IF Cardinality(predecessors(st.g, head_branch)) # 1 THEN Raise(st, "ValueError")
    ELSE LET parent_branch == CHOOSE p \in predecessors(st.g, head_branch) : TRUE
             pull_url == st.g.attr[head_branch].pull
         IN IF pull_url # NoPull
            THEN LET st1 == http(st, "PATCH", pull_url, head_branch, parent_branch, FALSE)
                 IN IF ~InRange(LastResp(st1).status) THEN Raise(st1, "ValueError") ELSE st1
            ELSE IF ~origin THEN Raise(st, "ValueError")
            ELSE LET first == create_pull(st, head_branch, parent_branch, TRUE)
                 IN IF first.again
                    THEN create_pull(first.st, head_branch, parent_branch, FALSE).st
                    ELSE first.st

\* ------------------------------------------------------------------- main
\* args: name (move-onto, forget), sha and flag (post-checkout), origin (whether
\* git remote -v shows a github.com origin, for submit)
NoArgs == [name |-> "", sha |-> NoSha, flag |-> "0", origin |-> TRUE]

operate(st, action, args) ==
    LET head_branch == st.head
        head_sha == st.tip[st.head]
        known == has_node(st.g, head_branch)
    IN CASE action = "restack" ->
              IF ~known THEN Raise(st, "AssertionError")
              ELSE restack_branch(st, head_branch, head_sha)
         [] action = "move-onto" ->
              IF ~has_node(st.g, args.name) \/ ~known THEN Raise(st, "AssertionError")
              ELSE move_branch(st, head_branch, head_sha, args.name, 1)
         [] action = "submit" ->
              IF ~known THEN Raise(st, "AssertionError")
              ELSE submit_pull_request(st, head_branch, args.origin)
         [] action = "forget" ->
              IF ~has_node(st.g, args.name) \/ ~known THEN Raise(st, "AssertionError")
              ELSE forget_branch(st, head_branch, args.name)
         [] action = "post-checkout" /\ ~known ->
              IF args.flag = "1" THEN add_branch(st, args.sha, head_branch, head_sha) ELSE st
         [] OTHER -> st

\* main without lines 208-209
main_no_update(f, t, h, action, args, failAt, resps) ==
    LET main_branch == get_main_branch(t)
        st0 == Invocation(f, add_node(f, main_branch, t[main_branch]), t, h, failAt, resps)
    IN IF t[main_branch] = NoSha THEN Raise(Invocation(f, f, t, h, failAt, resps), "CalledProcessError")
       ELSE IF h = "HEAD" THEN st0
       ELSE operate(st0, action, args)

\* read_graph up to the yield, then main inside the "with" block
main(f, t, h, action, args, failAt, resps) ==
    LET main_branch == get_main_branch(t)
        st0 == Invocation(f, add_node(f, main_branch, t[main_branch]), t, h, failAt, resps)
    IN IF t[main_branch] = NoSha THEN Raise(Invocation(f, f, t, h, failAt, resps), "CalledProcessError")
       ELSE IF h = "HEAD" THEN st0
       ELSE LET st1 == IF has_node(st0.g, h) THEN update_branch(st0, h, t[h]) ELSE st0
            IN IF st1.out # "ok" THEN st1 ELSE operate(st1, action, args)

\* read_graph that writes the graph in a "finally"
read_graph_always(f, st) == st.g

\* read_graph after the yield: the graph is written only when the block ended
\* without an exception; .stack.json is then what the invocation found, or
\* what the hooks of its rebases wrote
read_graph(f, st) == IF st.out = "ok" THEN st.g ELSE st.disk

\* ---------------------------------------------------------------- actions
\* one invocation of stack.py in the repository (t, h)
Invoke(action, args, t, h, failAt, resps) ==
    LET st == main(file, t, h, action, args, failAt, resps)
    IN /\ file' = read_graph(file, st)
       /\ tip' = st.tip
       /\ HEAD' = st.head

\* the size of the history so far: the branches created and the changes
\* committed, and the commands given, a command weighing as much as three of
\* those so that a history of several commands is a short one
Size ==
    Cardinality({b \in Branches : tip[b] # NoSha})
    + Cardinality({c \in Names : \E b \in Names : InSeq(tip[b], c)})
    + 3 * ncmds

CanCommand == Size + 3 <= MaxOps

Init ==
    /\ file = DiGraph
    /\ tip = [n \in Names |-> IF n = "main" THEN <<"root">> ELSE NoSha]
    /\ HEAD = "main"
    /\ ncmds = 0

\* git commit, then the post-commit hook
GitCommit ==
    /\ UNCHANGED ncmds
    /\ HEAD # "HEAD"
    /\ \A b \in Names : ~InSeq(tip[b], HEAD)
    /\ Size < MaxOps
    /\ Invoke("post-commit", NoArgs, [tip EXCEPT ![HEAD] = Append(@, HEAD)], HEAD, 0, <<>>)

\* git checkout b, then the post-checkout hook with the new HEAD and flag 1
GitCheckout(b) ==
    /\ UNCHANGED ncmds
    /\ tip[b] # NoSha
    /\ Invoke("post-checkout", [NoArgs EXCEPT !.sha = tip[b], !.flag = "1"], tip, b, 0, <<>>)

\* the names of the branches are interchangeable: a new branch takes the first
\* free one
FreeName(b) ==
    \E i \in 1..Len(BranchSeq) :
        /\ BranchSeq[i] = b
        /\ tip[b] = NoSha
        /\ \A j \in 1..(i - 1) : tip[BranchSeq[j]] # NoSha

\* git checkout -b b start, then the post-checkout hook
GitCheckoutNew(b, start) ==
    /\ UNCHANGED ncmds
    /\ FreeName(b)
    /\ Size < MaxOps
    /\ tip[start] # NoSha
    /\ Invoke("post-checkout", [NoArgs EXCEPT !.sha = tip[start], !.flag = "1"],
              [tip EXCEPT ![b] = tip[start]], b, 0, <<>>)

\* git checkout -- path: the post-checkout hook with flag 0
GitCheckoutFile ==
    /\ UNCHANGED ncmds
    /\ HEAD # "HEAD"
    /\ Invoke("post-checkout", [NoArgs EXCEPT !.sha = tip[HEAD], !.flag = "0"], tip, HEAD, 0, <<>>)

\* git checkout --detach, then the post-checkout hook
GitDetach ==
    /\ UNCHANGED ncmds
    /\ HEAD # "HEAD"
    /\ Invoke("post-checkout", [NoArgs EXCEPT !.sha = tip[HEAD], !.flag = "1"], tip, "HEAD", 0, <<>>)

\* the invocation of a command in the current state
Sync == main(file, tip, HEAD, "", NoArgs, 0, <<>>)

RestackRun(failAt) == main(file, tip, HEAD, "restack", NoArgs, failAt, <<>>)

SubmitRun(origin, resps) ==
    main(file, tip, HEAD, "submit", [NoArgs EXCEPT !.origin = origin], 0, resps)

ForgetRun(old_branch) ==
    main(file, tip, HEAD, "forget", [NoArgs EXCEPT !.name = old_branch], 0, <<>>)

\* the invocation that git checkout -b b start would start
CheckoutNewRun(b, start) ==
    main(file, [tip EXCEPT ![b] = tip[start]], b, "post-checkout",
         [NoArgs EXCEPT !.sha = tip[start], !.flag = "1"], 0, <<>>)

MoveRun(new_parent, failAt) ==
    main(file, tip, HEAD, "move-onto", [NoArgs EXCEPT !.name = new_parent], failAt, <<>>)

\* which of the rebase requests of a move may end in a conflict: any one of
\* those the move makes when none does, or none (0)
MoveFails(new_parent) == 0..NumRebases(MoveRun(new_parent, 0).log)

Restack(failAt) ==
    /\ CanCommand
    /\ ncmds' = ncmds + 1
    /\ Invoke("restack", NoArgs, tip, HEAD, failAt, <<>>)

MoveOnto(new_parent, failAt) ==
    /\ CanCommand
    /\ ncmds' = ncmds + 1
    /\ Invoke("move-onto", [NoArgs EXCEPT !.name = new_parent], tip, HEAD, failAt, <<>>)

Submit(origin, resps) ==
    /\ CanCommand
    /\ ncmds' = ncmds + 1
    /\ Invoke("submit", [NoArgs EXCEPT !.origin = origin], tip, HEAD, 0, resps)

Forget(old_branch) ==
    /\ CanCommand
    /\ ncmds' = ncmds + 1
    /\ Invoke("forget", [NoArgs EXCEPT !.name = old_branch], tip, HEAD, 0, <<>>)

Next ==
    \/ GitCommit
    \/ \E b \in Names : GitCheckout(b)
    \/ \E b \in Branches, start \in Names : GitCheckoutNew(b, start)
    \/ GitCheckoutFile
    \/ GitDetach
    \/ \E failAt \in 0..1 : Restack(failAt)
    \/ \E p \in Names : \E failAt \in MoveFails(p) : MoveOnto(p, failAt)
    \/ \E origin \in BOOLEAN, resps \in Scripts : Submit(origin, resps)
    \/ \E b \in Names : Forget(b)

Spec == Init /\ [][Next]_vars

\* git branch -m old new, for the trunk: no hook runs; it counts as a command
GitRenameTrunk(old, new) ==
    /\ CanCommand
    /\ ncmds' = ncmds + 1
    /\ {old, new} = {"main", "master"}
    /\ tip[old] # NoSha
    /\ tip[new] = NoSha
    /\ tip' = [tip EXCEPT ![new] = tip[old], ![old] = NoSha]
    /\ HEAD' = IF HEAD = old THEN new ELSE HEAD
    /\ UNCHANGED file

NextTrunk ==
    \/ Next
    \/ \E old \in {"main", "master"}, new \in {"main", "master"} : GitRenameTrunk(old, new)

\* the repository of Spec, whose trunk may also be renamed
SpecTrunk == Init /\ [][NextTrunk]_vars

\* git merge p on the checked-out branch: neither of the two hooks runs; it
\* counts as a command
GitMerge(p) ==
    /\ CanCommand
    /\ ncmds' = ncmds + 1
    /\ HEAD # "HEAD"
    /\ p # HEAD
    /\ tip[p] # NoSha
    /\ merge_result(tip[HEAD], tip[p]) # tip[HEAD]
    /\ tip' = [tip EXCEPT ![HEAD] = merge_result(@, tip[p])]
    /\ UNCHANGED <<file, HEAD>>

NextMerge ==
    \/ Next
    \/ \E p \in Names : GitMerge(p)

\* the repository of Spec, where the user may also merge
SpecMerge == Init /\ [][NextMerge]_vars

\* the steps of Spec whose command ends without an error: no rebase ends in a
\* conflict, no request is refused, no operator raises
NextOk ==
    \/ GitCommit
    \/ \E b \in Names : GitCheckout(b)
    \/ \E b \in Branches, start \in Names : GitCheckoutNew(b, start)
    \/ GitCheckoutFile
    \/ GitDetach
    \/ RestackRun(0).out = "ok" /\ Restack(0)
    \/ \E p \in Names : MoveRun(p, 0).out = "ok" /\ MoveOnto(p, 0)
    \/ \E resps \in Scripts : SubmitRun(TRUE, resps).out = "ok" /\ Submit(TRUE, resps)
    \/ \E b \in Names : ForgetRun(b).out = "ok" /\ Forget(b)

\* the repository of Spec, when every command succeeds
SpecOk == Init /\ [][NextOk]_vars

\* ----------------------------------------------------------------- claims
\* The claims about what a command does are stated of every command that can
\* be given in a reachable state: Sync is the invocation up to the operator,
\* RestackRun and MoveRun are the whole invocation, and read_graph(file, st) is
\* .stack.json after it.

Tracked(g) == {n \in Names : has_node(g, n)}

Children(g, n) == {m \in Names : InSeq(g.succ[n], m)}

RECURSIVE Reach(_, _)
Reach(g, S) ==
    LET T == S \cup UNION {Children(g, s) : s \in S}
    IN IF T = S THEN S ELSE Reach(g, T)

\* the transitive descendants of n
Desc(g, n) == Reach(g, Children(g, n))

Acyclic(g) == \A n \in Names : n \notin Desc(g, n)

OnBranch == HEAD # "HEAD" /\ has_node(Sync.g, HEAD) /\ predecessors(Sync.g, HEAD) # {}

ParentOf(g, n) == CHOOSE q \in predecessors(g, n) : TRUE

InDegreeOne(g) ==
    \A n \in Tracked(g) : n # get_main_branch(tip) => Cardinality(predecessors(g, n)) = 1

\* C1: after any sequence of invocations every tracked node of .stack.json
\* other than the trunk has exactly one inbound edge
C1_InDegreeOne == InDegreeOne(file)

\* a move onto another parent succeeds, in a graph of three tracked branches
C1_Witness ==
    /\ OnBranch
    /\ CanCommand
    /\ Cardinality(Tracked(file)) = 4
    /\ \E q \in Tracked(file) :
           /\ q # ParentOf(Sync.g, HEAD)
           /\ MoveRun(q, 0).out = "ok"
           /\ predecessors(read_graph(file, MoveRun(q, 0)), HEAD) = {q}

\* C2: after any sequence of invocations .stack.json is acyclic, whatever
\* tracked node the new parent of a move-onto was
C2_Acyclic == Acyclic(file)

\* a move onto the node itself or onto one of its descendants is given: the
\* graph in memory gets a cycle and the invocation ends in an exception
C2_Witness ==
    /\ OnBranch
    /\ CanCommand
    /\ \E q \in Desc(Sync.g, HEAD) \cup {HEAD} :
           /\ MoveRun(q, 0).out # "ok"
           /\ ~Acyclic(MoveRun(q, 0).g)

Roots(g) == {n \in Tracked(g) : predecessors(g, n) = {}}

\* C3: once an invocation has written .stack.json, it has exactly one node
\* without a parent, and that node has no base
C3_OneRoot ==
    file.nodes # <<>> =>
        /\ Cardinality(Roots(file)) = 1
        /\ \A r \in Roots(file) : file.attr[r].base = NoSha

\* C4: after a successful restack of the checked-out node its base is the
\* recorded sha of its parent, and no edge has changed
C4_RestackBase ==
    HEAD # "HEAD" =>
        \A failAt \in 0..1 :
            LET st == RestackRun(failAt)
                f2 == read_graph(file, st)
            IN st.out = "ok" =>
                   /\ Cardinality(predecessors(f2, HEAD)) = 1
                   /\ f2.attr[HEAD].base = f2.attr[ParentOf(f2, HEAD)].sha
                   /\ f2.succ = Sync.g.succ

\* a restack succeeds and changes the base: the parent had advanced
C4_Witness ==
    /\ OnBranch
    /\ CanCommand
    /\ RestackRun(0).out = "ok"
    /\ read_graph(file, RestackRun(0)).attr[HEAD].base # Sync.g.attr[HEAD].base

\* C5: after a successful restack that moved the branch, the sha written to
\* .stack.json is the tip of the branch after the rebase
C5_RestackSha ==
    HEAD # "HEAD" =>
        \A failAt \in 0..1 :
            LET st == RestackRun(failAt)
            IN (st.out = "ok" /\ st.tip[HEAD] # tip[HEAD]) =>
                   read_graph(file, st).attr[HEAD].sha = st.tip[HEAD]

LastOf(s) == s[Len(s)]

C7_Cascade ==
    OnBranch =>
        \A q \in Tracked(Sync.g) :
            LET st == MoveRun(q, 0)
                f2 == read_graph(file, st)
            IN st.out = "ok" =>
                   /\ predecessors(f2, HEAD) = {q}
                   /\ f2.attr[HEAD].base = f2.attr[q].sha
                   /\ f2.attr[HEAD].sha = st.tip[HEAD]
                   /\ \A d \in Desc(f2, HEAD) :
                          /\ Cardinality(predecessors(f2, d)) = 1
                          /\ f2.attr[d].base = f2.attr[ParentOf(f2, d)].sha
                          /\ f2.attr[d].sha = st.tip[d]

\* a move onto another parent succeeds and its cascade gives a descendant
\* another base
C7_Witness ==
    /\ OnBranch
    /\ CanCommand
    /\ \E q \in Tracked(Sync.g) \ {ParentOf(Sync.g, HEAD)} :
           /\ MoveRun(q, 0).out = "ok"
           /\ \E d \in Desc(Sync.g, HEAD) :
                  read_graph(file, MoveRun(q, 0)).attr[d].base # Sync.g.attr[d].base

\* C8: a successful move of the checked-out node n changes no attribute and
\* no branch outside the subtree of n, no pull_url, no edge other than the
\* inbound edge of n, and the parent of no descendant of n
C8_MoveFrame ==
    OnBranch =>
        \A q \in Tracked(Sync.g) :
            LET st == MoveRun(q, 0)
                f2 == read_graph(file, st)
                pre == Sync.g
                sub == {HEAD} \cup Desc(pre, HEAD)
            IN st.out = "ok" =>
                   /\ f2.nodes = pre.nodes
                   /\ \A m \in Names \ sub : f2.attr[m] = pre.attr[m] /\ st.tip[m] = tip[m]
                   /\ \A m \in sub : f2.attr[m].pull = pre.attr[m].pull
                   /\ \A m \in Names : Without(f2.succ[m], HEAD) = Without(pre.succ[m], HEAD)
                   /\ \A d \in Desc(pre, HEAD) : predecessors(f2, d) = predecessors(pre, d)

\* a move onto another parent succeeds for a node that has a sibling and a child
C8_Witness ==
    /\ OnBranch
    /\ CanCommand
    /\ Len(Sync.g.succ[ParentOf(Sync.g, HEAD)]) > 1
    /\ Sync.g.succ[HEAD] # <<>>
    /\ \E q \in Tracked(Sync.g) \ {ParentOf(Sync.g, HEAD)} : MoveRun(q, 0).out = "ok"

\* C9: when a rebase of a move ends in a conflict, the sha, the base and the
\* parent of its node are in memory what they were before the request, and
\* nothing is asked of git after it
C9_FailKeepsNode ==
    OnBranch =>
        \A q \in Tracked(Sync.g) \ ({HEAD} \cup Desc(Sync.g, HEAD)) :
          \A failAt \in MoveFails(q) \ {0} :
            LET st == MoveRun(q, failAt)
                e == LastOf(st.log)
            IN st.out = "UnboundLocalError" =>
                   /\ IsRebase(e) /\ ~e.ok
                   /\ st.g.attr[e.branch] = e.attr
                   /\ predecessors(st.g, e.branch) = e.parents

\* C10: when the rebase of a descendant ends in a conflict, .stack.json has
\* the sha, the base and the parent of every node the cascade had moved
C10_PartialPersisted ==
    OnBranch =>
        \A q \in Tracked(Sync.g) \ ({HEAD} \cup Desc(Sync.g, HEAD)) :
          \A failAt \in MoveFails(q) \ {0, 1} :
            LET st == MoveRun(q, failAt)
                f2 == read_graph(file, st)
            IN st.out = "UnboundLocalError" =>
                   \A i \in 1..Len(st.log) :
                       (IsRebase(st.log[i]) /\ st.log[i].ok) =>
                           /\ f2.attr[st.log[i].branch] = st.g.attr[st.log[i].branch]
                           /\ predecessors(f2, st.log[i].branch)
                                  = predecessors(st.g, st.log[i].branch)

\* C11: a submit on the checked-out node that has a pull_url makes exactly one
\* request, the update of that pull request with the name of the node as head
\* and the name of its parent in the graph as base, and no create request
C11_UpdateOnce ==
    (OnBranch /\ Sync.g.attr[HEAD].pull # NoPull) =>
        \A origin \in BOOLEAN, resps \in Scripts :
            LET log == SubmitRun(origin, resps).log
            IN /\ Len(log) = 1
               /\ log[1].cmd = "PATCH"
               /\ log[1].url = Sync.g.attr[HEAD].pull
               /\ log[1].branch = HEAD
               /\ log[1].base = ParentOf(Sync.g, HEAD)

\* a submit can be given on a node that has a pull_url and whose parent is not
\* the trunk
C11_Witness ==
    /\ OnBranch
    /\ CanCommand
    /\ Sync.g.attr[HEAD].pull # NoPull
    /\ ParentOf(Sync.g, HEAD) # get_main_branch(tip)

\* C12: a submit on the checked-out node that has no pull_url, in a repository
\* with a github.com origin, makes one or two requests, all of them create
\* requests; the first asks for a draft; there is a second one, not a draft,
\* exactly when the answer to the first had status 422; and the node has no
\* pull_url at the time of any of the requests
C12_DraftThenPlain ==
    (OnBranch /\ Sync.g.attr[HEAD].pull = NoPull) =>
        \A resps \in Scripts :
            LET log == SubmitRun(TRUE, resps).log
            IN /\ Len(log) \in {1, 2}
               /\ \A i \in 1..Len(log) :
                      /\ log[i].cmd = "POST"
                      /\ log[i].branch = HEAD
                      /\ log[i].base = ParentOf(Sync.g, HEAD)
                      /\ log[i].attr.pull = NoPull
               /\ log[1].draft
               /\ Len(log) = 2 <=> log[1].status = StatusNoDrafts
               /\ Len(log) = 2 => ~log[2].draft

\* a submit can be given whose draft is rejected and whose second request
\* gives the node its pull_url
C12_Witness ==
    /\ OnBranch
    /\ CanCommand
    /\ Sync.g.attr[HEAD].pull = NoPull
    /\ \E resps \in Scripts :
           /\ Len(SubmitRun(TRUE, resps).log) = 2
           /\ SubmitRun(TRUE, resps).out = "ok"
           /\ read_graph(file, SubmitRun(TRUE, resps)).attr[HEAD].pull # NoPull

\* C13: a submit whose last request got a status outside range(200, 299) ends
\* in an error, and a node that had no pull_url has one after a submit only
\* when the create request that ended the submit got a status in that range
C13_NonSuccessFails ==
    OnBranch =>
        \A resps \in Scripts :
            LET st == SubmitRun(TRUE, resps)
                f2 == read_graph(file, st)
            IN /\ ~InRange(LastOf(st.log).status) => st.out # "ok"
               /\ (Sync.g.attr[HEAD].pull = NoPull /\ f2.attr[HEAD].pull # NoPull) =>
                      InRange(LastOf(st.log).status)

\* C14: a forget of the checked-out node, or of a node that has a child, ends
\* in ValueError with the graph in memory as it was when the operator started
\* and .stack.json as it was before the invocation
C14_ForgetRefused ==
    (HEAD # "HEAD" /\ has_node(Sync.g, HEAD)) =>
        \A b \in Tracked(Sync.g) :
            (b = HEAD \/ Sync.g.succ[b] # <<>>) =>
                LET st == ForgetRun(b)
                IN /\ st.out = "ValueError"
                   /\ st.g = Sync.g
                   /\ read_graph(file, st) = file

\* a forget can be given of the checked-out node, which has a parent, and of
\* another node that has a child
C14_Witness ==
    /\ OnBranch
    /\ CanCommand
    /\ ForgetRun(HEAD).out = "ValueError"
    /\ \E b \in Tracked(Sync.g) \ {HEAD} :
           Sync.g.succ[b] # <<>> /\ ForgetRun(b).out = "ValueError"

\* C15: a forget that ends without an error was given of a tracked node other
\* than the checked-out one, without children and with one parent; after it
\* that node and the edge to it are gone, every other node has the attributes
\* and every other edge the place it had, and nothing was asked of git or of
\* the hosting service
C15_ForgetFrame ==
    HEAD # "HEAD" =>
        \A b \in Names :
            LET st == ForgetRun(b)
                f2 == read_graph(file, st)
                pre == Sync.g
            IN st.out = "ok" =>
                   /\ has_node(pre, b) /\ b # HEAD /\ pre.succ[b] = <<>>
                   /\ Cardinality(predecessors(pre, b)) = 1
                   /\ f2.nodes = Without(pre.nodes, b)
                   /\ predecessors(f2, b) = {}
                   /\ \A m \in Names \ {b} :
                          /\ f2.attr[m] = pre.attr[m]
                          /\ f2.succ[m] = Without(pre.succ[m], b)
                   /\ st.log = <<>> /\ st.tip = tip /\ st.head = HEAD

\* a forget can be given, in a graph of three tracked branches, that ends
\* without an error
C15_Witness ==
    /\ OnBranch
    /\ CanCommand
    /\ Cardinality(Tracked(Sync.g)) = 4
    /\ \E b \in Tracked(Sync.g) : ForgetRun(b).out = "ok"

\* C16: after git checkout -b b on a tracked branch, b is a node of
\* .stack.json whose base is the commit it was created at and whose only
\* parent is the branch that was checked out
C16_NewBranchNode ==
    (HEAD # "HEAD" /\ has_node(file, HEAD)) =>
        \A b \in Branches :
            FreeName(b) =>
                LET f2 == read_graph(file, CheckoutNewRun(b, HEAD))
                IN /\ has_node(f2, b)
                   /\ f2.attr[b].base = tip[HEAD]
                   /\ predecessors(f2, b) = {HEAD}

\* C17: after git checkout -b b P, given on another tracked branch than the
\* tracked branch P, b is a node of .stack.json whose only parent is P, which
\* is the last child of P and whose base is the recorded sha of P
C17_NewBranchFrom ==
    (HEAD # "HEAD" /\ has_node(file, HEAD)) =>
        \A b \in Branches : \A P \in Tracked(file) \ {HEAD} :
            FreeName(b) =>
                LET f2 == read_graph(file, CheckoutNewRun(b, P))
                IN /\ has_node(f2, b)
                   /\ predecessors(f2, b) = {P}
                   /\ LastOf(f2.succ[P]) = b
                   /\ f2.attr[b].base = f2.attr[P].sha

IsPrefix(a, b) == Len(a) <= Len(b) /\ SubSeq(b, 1, Len(a)) = a

\* C18: the graph an operator starts with is .stack.json with the trunk node
\* added and given the tip of the trunk and, when the checked-out branch is a
\* node, with the tip of that branch as its sha and, when it has a parent, the
\* merge-base of the parent and the branch as its base: the tip of the parent
\* when that is an ancestor of the branch and another commit when it is not.
\* No edge, no pull_url and no other node has changed
C18_Sync ==
    HEAD # "HEAD" =>
        LET g == Sync.g
            trunk == get_main_branch(tip)
        IN /\ Sync.out = "ok"
           /\ g.nodes = IF has_node(file, trunk) THEN file.nodes ELSE Append(file.nodes, trunk)
           /\ g.succ = file.succ
           /\ g.attr[trunk].sha = tip[trunk]
           /\ \A m \in Names \ {HEAD, trunk} : g.attr[m] = file.attr[m]
           /\ \A m \in Names : g.attr[m].pull = file.attr[m].pull
           /\ has_node(file, HEAD) => g.attr[HEAD].sha = tip[HEAD]
           /\ predecessors(file, HEAD) = {} => g.attr[HEAD].base = file.attr[HEAD].base
           /\ \A q \in predecessors(file, HEAD) :
                  /\ g.attr[HEAD].base = merge_base(tip, q, HEAD)
                  /\ IsPrefix(g.attr[HEAD].base, tip[q])
                  /\ IsPrefix(g.attr[HEAD].base, tip[HEAD])
                  /\ g.attr[HEAD].base = tip[q] <=> IsPrefix(tip[q], tip[HEAD])

\* the checked-out node has merged its parent since .stack.json was written:
\* the invocation gives it another sha, and the tip of its parent as base
C18_Witness ==
    /\ OnBranch
    /\ file.attr[HEAD].sha # tip[HEAD]
    /\ file.attr[HEAD].base # Sync.g.attr[HEAD].base
    /\ Sync.g.attr[HEAD].base = tip[ParentOf(file, HEAD)]

\* C19: a step that takes a node out of .stack.json is a forget of that node,
\* which had no children, was not the checked-out branch and was not the
\* trunk; and every .stack.json that is written has the trunk as a node
C19_OnlyForget ==
    [][/\ \A n \in Tracked(file) \ Tracked(file') :
              /\ n # HEAD
              /\ file.succ[n] = <<>>
              /\ n # get_main_branch(tip)
              /\ Forget(n)
       /\ file'.nodes # <<>> => has_node(file', get_main_branch(tip'))]_vars

\* a forget can be given that takes a node out of .stack.json
C19_Witness ==
    /\ OnBranch
    /\ CanCommand
    /\ \E b \in Tracked(file) : ~has_node(read_graph(file, ForgetRun(b)), b)

\* C20: when the checked-out branch is a node, the graph an operator starts
\* with has the tip of the branch as its sha, whatever .stack.json said, so
\* that a restack, and a move onto any tracked node, of a node with one parent
\* gets as far as asking git for the rebase
C20_NoStaleSha ==
    (HEAD # "HEAD" /\ has_node(Sync.g, HEAD)) =>
        /\ Sync.g.attr[HEAD].sha = tip[HEAD]
        /\ Cardinality(predecessors(Sync.g, HEAD)) = 1 =>
               /\ NumRebases(RestackRun(0).log) > 0
               /\ \A q \in Tracked(Sync.g) : NumRebases(MoveRun(q, 0).log) > 0

\* the sha of the checked-out node in .stack.json is not the tip of the
\* branch, and a restack and a move can be given that end without an error
C20_Witness ==
    /\ OnBranch
    /\ CanCommand
    /\ file.attr[HEAD].sha # tip[HEAD]
    /\ RestackRun(0).out = "ok"
    /\ \E q \in Tracked(Sync.g) : MoveRun(q, 0).out = "ok"

\* C21: after commands that all ended without an error, a move of the
\* checked-out node onto a tracked node outside its subtree, none of whose
\* rebases ends in a conflict, ends without an error
C21_CascadeNotStale ==
    OnBranch =>
        \A q \in Tracked(Sync.g) \ ({HEAD} \cup Desc(Sync.g, HEAD)) :
            MoveRun(q, 0).out = "ok"

\* the branches of the rebase requests of a log, in the order of the requests
RECURSIVE Rebased(_)
Rebased(log) ==
    IF log = <<>> THEN <<>>
    ELSE IF IsRebase(Head(log)) THEN <<Head(log).branch>> \o Rebased(Tail(log))
    ELSE Rebased(Tail(log))

\* n and its descendants, depth-first in the order of the successors
RECURSIVE Preorder(_, _)
RECURSIVE PreorderAll(_, _)
Preorder(g, n) == <<n>> \o PreorderAll(g, g.succ[n])

PreorderAll(g, children) ==
    IF children = <<>> THEN <<>>
    ELSE Preorder(g, Head(children)) \o PreorderAll(g, Tail(children))

\* C22: a move of the checked-out node onto any tracked node does not run out
\* of stack; it asks for the rebase of the node and then of its descendants,
\* depth-first in the order of the children, of each at most once and of no
\* other node, and of all of them when it ends without an error
C22_CascadeOnce ==
    OnBranch =>
        \A q \in Tracked(Sync.g) :
            LET st == MoveRun(q, 0)
            IN /\ st.out # "RecursionError"
               /\ IsPrefix(Rebased(st.log), Preorder(Sync.g, HEAD))
               /\ st.out = "ok" => Rebased(st.log) = Preorder(Sync.g, HEAD)

\* C23: after a move of the checked-out node that ended without an error the
\* checked-out branch is that node, and the checkout of it is the last thing
\* that was asked of git
C23_CheckoutRestored ==
    OnBranch =>
        \A q \in Tracked(Sync.g) :
            LET st == MoveRun(q, 0)
            IN st.out = "ok" =>
                   /\ st.head = HEAD
                   /\ LastOf(st.log).cmd = "checkout"
                   /\ LastOf(st.log).branch = HEAD

\* a move can be given of a node with two descendants that ends without an
\* error, after checkouts of both of them
C23_Witness ==
    /\ OnBranch
    /\ CanCommand
    /\ Cardinality(Desc(Sync.g, HEAD)) = 2
    /\ \E q \in Tracked(Sync.g) :
           /\ MoveRun(q, 0).out = "ok"
           /\ \A d \in Desc(Sync.g, HEAD) :
                  \E i \in 1..Len(MoveRun(q, 0).log) :
                      /\ MoveRun(q, 0).log[i].cmd = "checkout"
                      /\ MoveRun(q, 0).log[i].branch = d

\* C24: an invocation that ends with an error leaves .stack.json exactly as
\* it found it, whatever the error: a conflict in a restack or in any rebase
\* of a move, a refused move or forget, a missing remote, a response of the
\* hosting service that is not a success, a start point that is not tracked
C24_ErrorWritesNothing ==
    /\ \A failAt \in 0..1 :
           RestackRun(failAt).out # "ok" => read_graph(file, RestackRun(failAt)) = file
    /\ \A q \in Names : \A failAt \in MoveFails(q) :
           MoveRun(q, failAt).out # "ok" => read_graph(file, MoveRun(q, failAt)) = file
    /\ \A origin \in BOOLEAN, resps \in Scripts :
           SubmitRun(origin, resps).out # "ok"
               => read_graph(file, SubmitRun(origin, resps)) = file
    /\ \A b \in Names :
           ForgetRun(b).out # "ok" => read_graph(file, ForgetRun(b)) = file
    /\ \A b \in Branches, start \in Names :
           CheckoutNewRun(b, start).out # "ok"
               => read_graph(file, CheckoutNewRun(b, start)) = file
    /\ Sync.out # "ok" => read_graph(file, Sync) = file

\* C25: a pull_url that .stack.json holds for a node is still the pull_url of
\* that node after every step, unless the step is the forget of that node,
\* which removes the node; and every request that a submit on the checked-out
\* node makes while the node has a pull_url is an update sent to that pull_url
C25_PullKept ==
    [][/\ \A n \in Names :
              file.attr[n].pull # NoPull =>
                  \/ file'.attr[n].pull = file.attr[n].pull
                  \/ ~has_node(file', n) /\ Forget(n)
       /\ (OnBranch /\ file.attr[HEAD].pull # NoPull) =>
              \A origin \in BOOLEAN, resps \in Scripts :
                  LET st == SubmitRun(origin, resps)
                  IN /\ \A i \in 1..Len(st.log) :
                            IsHttp(st.log[i]) =>
                                /\ st.log[i].cmd = "PATCH"
                                /\ st.log[i].url = file.attr[HEAD].pull
                     /\ st.out = "ok" => NumHttp(st.log) = 1]_vars

\* a node that has a pull_url and a parent whose tip is not the node's base
\* is checked out, and can be restacked and be moved onto another node with
\* success
C25_Witness ==
    /\ OnBranch
    /\ CanCommand
    /\ file.attr[HEAD].pull # NoPull
    /\ RestackRun(0).out = "ok"
    /\ read_graph(file, RestackRun(0)).attr[HEAD].base # file.attr[HEAD].base
    /\ \E q \in Tracked(file) \ {HEAD, ParentOf(file, HEAD)} : MoveRun(q, 0).out = "ok"

====
